---- MODULE Spec2Model ----
(***************************************************************************)
(* Grade Report Generator (React component App).                           *)
(*                                                                         *)
(* The repository holds two revisions of the component: src/src/App.js    *)
(* (thresholds normalised by coerceThresholds, group keys sorted, fixed    *)
(* bands, PDF export) and src/unnamed/part_000 (raw thresholds, group keys *)
(* in Object.keys order, no fixed bands).  SpecApp is the state machine of  *)
(* the first, SpecPart000 of the second; they differ in generateReport and *)
(* in downloadPDF, which only App.js has.                                  *)
(*                                                                         *)
(* Encodings.                                                              *)
(*  - A JS string is the sequence of its UTF-16 code units, so trimming,    *)
(*    replacing, parsing, regex tests and the default sort order are       *)
(*    computed and not assumed.                                            *)
(*  - A JS number is a record [k, v]: k = "fin" with the integer v,        *)
(*    k = "inf" with v = 1 or -1, k = "nan" with v = 0.  Cell values of    *)
(*    the datasets are integers or non-finite; strings hold no "." and no  *)
(*    exponent, so parseFloat reads an integer prefix.                     *)
(*  - x.toFixed(1) of a rate is the integer number of tenths, x.toFixed(2) *)
(*    of a mean or SD is a number record counting hundredths; both round   *)
(*    half away from zero on the exact value.                              *)
(***************************************************************************)
EXTENDS Integers, Sequences, FiniteSets, TLC

VARIABLES
    fileName, data, columns, gradeCol, groupCol, title,
    passing, merit, distinction,
    overallSummary, groupSummary, reportGenerated,
    pending,          \* FileReader reads started and not yet completed
    outcome,          \* what the last handler did (alert shown, exception, done)
    overallSrc,       \* history: the inputs of the generate that wrote overallSummary
    groupSrc,         \* history: the inputs of the generate that wrote groupSummary
    prevSrc,          \* history: groupSrc as it was before the last completed generate
    actions           \* how many user actions (selections, edits, generate requests) were taken

vars == <<fileName, data, columns, gradeCol, groupCol, title,
          passing, merit, distinction, overallSummary, groupSummary,
          reportGenerated, pending, outcome, overallSrc, groupSrc, prevSrc,
          actions>>

\* ------------------------------------------------------------------ bounds
\* the number of user actions of a run (file selections, edits of a control,
\* generate requests); reset, export and read completions are not counted
MaxActions == 4

\* ------------------------------------------------------------- JS numbers
Fin(n) == [k |-> "fin", v |-> n]
NaN == [k |-> "nan", v |-> 0]
PosInf == [k |-> "inf", v |-> 1]
NegInf == [k |-> "inf", v |-> -1]

NumberIsNaN(x) == x.k = "nan"
NumberIsFinite(x) == x.k = "fin"

\* a < b on JS numbers: false when either side is NaN
LT(a, b) ==
    /\ ~NumberIsNaN(a)
    /\ ~NumberIsNaN(b)
    /\ IF a.k = "inf" /\ b.k = "inf" THEN a.v < b.v
       ELSE IF a.k = "inf" THEN a.v < 0
       ELSE IF b.k = "inf" THEN b.v > 0
       ELSE a.v < b.v

\* a >= b on JS numbers: false when either side is NaN
GE(a, b) == ~NumberIsNaN(a) /\ ~NumberIsNaN(b) /\ ~LT(a, b)

\* Math.max(a, b) and Math.min(a, b)
MathMax2(a, b) == IF NumberIsNaN(a) \/ NumberIsNaN(b) THEN NaN ELSE IF LT(a, b) THEN b ELSE a
MathMin2(a, b) == IF NumberIsNaN(a) \/ NumberIsNaN(b) THEN NaN ELSE IF LT(b, a) THEN b ELSE a

\* a + b on JS numbers
Add(a, b) ==
    IF NumberIsNaN(a) \/ NumberIsNaN(b) THEN NaN
    ELSE IF a.k = "inf" /\ b.k = "inf" THEN (IF a.v = b.v THEN a ELSE NaN)
    ELSE IF a.k = "inf" THEN a
    ELSE IF b.k = "inf" THEN b
    ELSE Fin(a.v + b.v)

\* ------------------------------------------------------------- JS strings
EmptyStr == <<>>
IsWhiteSpace(c) == c \in {9, 10, 11, 12, 13, 32, 160}
IsDigit(c) == c >= 48 /\ c <= 57

RECURSIVE TrimStart(_)
TrimStart(s) ==
    IF s # <<>> /\ IsWhiteSpace(Head(s)) THEN TrimStart(Tail(s)) ELSE s

RECURSIVE TrimEnd(_)
TrimEnd(s) ==
    IF s # <<>> /\ IsWhiteSpace(s[Len(s)]) THEN TrimEnd(SubSeq(s, 1, Len(s) - 1)) ELSE s

\* String.prototype.trim
Trim(s) == TrimEnd(TrimStart(s))

\* s.replace(/c/g, "") for a single character c
RemoveAll(s, c) == SelectSeq(s, LAMBDA x : x # c)

\* whether s starts with w
StartsWith(s, w) == Len(s) >= Len(w) /\ SubSeq(s, 1, Len(w)) = w

\* whether w occurs in s
Contains(s, w) == \E i \in 1..(Len(s) - Len(w) + 1) : SubSeq(s, i, i + Len(w) - 1) = w

\* the /i flag: compare on the lower-cased header (A-Z only occur in the ASCII range here)
ToLower(s) == [i \in 1..Len(s) |-> IF s[i] >= 65 /\ s[i] <= 90 THEN s[i] + 32 ELSE s[i]]

\* the value of the longest prefix of decimal digits of s (acc is the value so far)
RECURSIVE DigitsValue(_, _)
DigitsValue(s, acc) ==
    IF s # <<>> /\ IsDigit(Head(s)) THEN DigitsValue(Tail(s), 10 * acc + (Head(s) - 48)) ELSE acc

\* the decimal digits of n >= 0
RECURSIVE Digits(_)
Digits(n) == IF n < 10 THEN <<48 + n>> ELSE Digits(n \div 10) \o <<48 + (n % 10)>>

StrInfinity == <<73, 110, 102, 105, 110, 105, 116, 121>>
StrNaN == <<78, 97, 78>>
StrMissing == <<40, 109, 105, 115, 115, 105, 110, 103, 41>>

\* parseFloat(s): leading white space, a sign, then "Infinity" or decimal digits
ParseFloat(s) ==
    LET t == TrimStart(s)
        neg == t # <<>> /\ Head(t) = 45
        signed == t # <<>> /\ Head(t) \in {43, 45}
        u == IF signed THEN Tail(t) ELSE t
    IN  IF StartsWith(u, StrInfinity) THEN (IF neg THEN NegInf ELSE PosInf)
        ELSE IF u # <<>> /\ IsDigit(Head(u))
             THEN Fin(IF neg THEN 0 - DigitsValue(u, 0) ELSE DigitsValue(u, 0))
        ELSE NaN

\* String(x) of a JS number
NumberToString(x) ==
    IF x.k = "nan" THEN StrNaN
    ELSE IF x.k = "inf" THEN (IF x.v < 0 THEN <<45>> \o StrInfinity ELSE StrInfinity)
    ELSE IF x.v < 0 THEN <<45>> \o Digits(0 - x.v)
    ELSE Digits(x.v)

\* a < b in the order of Array.prototype.sort() without a comparator (UTF-16 code units)
RECURSIVE StrLess(_, _)
StrLess(a, b) ==
    IF b = <<>> THEN FALSE
    ELSE IF a = <<>> THEN TRUE
    ELSE IF Head(a) # Head(b) THEN Head(a) < Head(b)
    ELSE StrLess(Tail(a), Tail(b))

\* ------------------------------------------------------------- cell values
Null == [t |-> "null", num |-> NaN, str |-> <<>>]
Undefined == [t |-> "undefined", num |-> NaN, str |-> <<>>]
NumCell(x) == [t |-> "number", num |-> x, str |-> <<>>]
StrCell(s) == [t |-> "string", num |-> NaN, str |-> s]

\* r[col] of a row object
Cell(r, col) == IF col \in DOMAIN r THEN r[col] ELSE Undefined

\* parseNumber: a number is returned as it is, NaN and Infinity included
parseNumber(x) ==
    IF x.t \in {"null", "undefined"} THEN NaN
    ELSE IF x.t = "number" THEN x.num
    ELSE LET s == RemoveAll(RemoveAll(Trim(x.str), 44), 37)
             v == ParseFloat(s)
         IN  IF NumberIsFinite(v) THEN v ELSE NaN

\* ------------------------------------------------------------- arithmetic
\* num/den (den > 0) rounded to the nearest integer, halves away from zero
RoundHalfAway(num, den) ==
    IF num >= 0 THEN (2 * num + den) \div (2 * den)
    ELSE 0 - ((2 * (0 - num) + den) \div (2 * den))

\* a*a <= 40000*Q for a, Q >= 0, computed without leaving 32 bits:
\* with a = 200q + r this is 400qr + r*r <= 40000*(Q - q*q)
SquareAtMost40000(a, Q) ==
    LET q == a \div 200
        r == a % 200
        D == Q - q * q
    IN  IF D < 0 THEN FALSE
        ELSE IF D >= 2 * q + 1 THEN TRUE
        ELSE 400 * q * r + r * r <= 40000 * D

\* the largest k in lo..hi with ((2k-1)*n)^2 <= 40000*Q, given that lo has it
RECURSIVE LargestHundredths(_, _, _, _)
LargestHundredths(lo, hi, n, Q) ==
    IF lo >= hi THEN lo
    ELSE LET mid == (lo + hi + 1) \div 2
         IN  IF SquareAtMost40000((2 * mid - 1) * n, Q)
             THEN LargestHundredths(mid, hi, n, Q)
             ELSE LargestHundredths(lo, mid - 1, n, Q)

\* ------------------------------------------------------------- array helpers
\* arr.reduce((a, b) => a + b, 0)
RECURSIVE SumOf(_)
SumOf(arr) == IF arr = <<>> THEN Fin(0) ELSE Add(Head(arr), SumOf(Tail(arr)))

\* the sum of the squares of finite numbers
RECURSIVE SumSquares(_)
SumSquares(arr) == IF arr = <<>> THEN 0 ELSE Head(arr).v * Head(arr).v + SumSquares(Tail(arr))

\* Math.max(...arr)
RECURSIVE MathMax(_)
MathMax(arr) == IF arr = <<>> THEN NegInf ELSE MathMax2(Head(arr), MathMax(Tail(arr)))

\* Math.min(...arr)
RECURSIVE MathMin(_)
MathMin(arr) == IF arr = <<>> THEN PosInf ELSE MathMin2(Head(arr), MathMin(Tail(arr)))

\* ((count / n) * 100).toFixed(1), in tenths
RateFixed1(count, n) == RoundHalfAway(1000 * count, n)

\* mean.toFixed(2) with mean = sum / n, in hundredths ("Infinity" or "NaN" when the sum is not finite)
MeanFixed2(arr) ==
    LET s == SumOf(arr)
    IN  IF s.k = "fin" THEN Fin(RoundHalfAway(100 * s.v, Len(arr))) ELSE s

\* variant of SDFixed2 with the sample divisor n - 1
SDFixed2_SampleDivisor(arr) ==
    LET n == Len(arr)
        s == SumOf(arr)
        Q == n * SumSquares(arr) - s.v * s.v
        range == MathMax(arr).v - MathMin(arr).v
    IN  IF s.k # "fin" THEN NaN
        ELSE IF n = 1 THEN NaN
        ELSE Fin(LargestHundredths(0, 200 * range + 1, n * (n - 1), Q * n * (n - 1)))

\* sd.toFixed(2) with sd = sqrt(sum((b - mean)^2) / n), in hundredths.  With T the sum
\* and Q = n*sum(b^2) - T^2, sd = sqrt(Q)/n, and the result is the largest k with
\* (2k-1)*n <= 200*sqrt(Q).  An infinite grade makes b - mean NaN or infinite, and SD NaN.
SDFixed2(arr) ==
    LET n == Len(arr)
        s == SumOf(arr)
        Q == n * SumSquares(arr) - s.v * s.v
        range == MathMax(arr).v - MathMin(arr).v
    IN  IF s.k # "fin" THEN NaN
        ELSE Fin(LargestHundredths(0, 100 * range + 1, n, Q))

\* ------------------------------------------------------------- input data
\* Header names (the keys of the row objects of sheet_to_json)
ColScore == <<83, 99, 111, 114, 101>>           \* "Score"
ColClass == <<67, 108, 97, 115, 115>>           \* "Class"
ColResult == <<82, 101, 115, 117, 108, 116>>    \* "Result"
ColTeam == <<84, 101, 97, 109>>                 \* "Team"
ColCohort == <<67, 111, 104, 111, 114, 116>>    \* "Cohort"
ColMarks == <<77, 97, 114, 107, 115>>           \* "Marks"
StrA == <<65>>
StrB == <<66>>
StrConstructor == <<99, 111, 110, 115, 116, 114, 117, 99, 116, 111, 114>>

\* a row object with the keys of header, in header order
Row(header, cells) == [c \in {header[i] : i \in 1..Len(header)} |->
                          cells[CHOOSE i \in 1..Len(header) : header[i] = c]]

\* what XLSX.utils.sheet_to_json(ws, {defval: null}) returns for a sheet
Sheet(header, body) == [i \in 1..Len(body) |-> Row(header, body[i])]

\* The files the user can select: name, header row, and the parsed sheet.
Files == {
    [name |-> "grades.csv", header |-> <<ColScore, ColClass>>,
     json |-> Sheet(<<ColScore, ColClass>>,
        << <<NumCell(Fin(35)), StrCell(StrB)>>,
           <<NumCell(Fin(45)), StrCell(StrA)>>,
           <<NumCell(Fin(65)), StrCell(StrB)>>,
           <<NumCell(Fin(75)), StrCell(StrA)>> >>)],
    [name |-> "messy.csv", header |-> <<ColResult, ColTeam>>,
     json |-> Sheet(<<ColResult, ColTeam>>,
        << <<StrCell(<<56, 53, 37>>), Null>>,                       \* "85%"
           <<StrCell(<<49, 44, 50, 48, 48>>), NumCell(Fin(10))>>,   \* "1,200"
           <<StrCell(<<78, 47, 65>>), NumCell(Fin(2))>>,            \* "N/A"
           <<Null, NumCell(Fin(10))>>,
           <<StrCell(<<32, 55, 48, 32>>), NumCell(Fin(2))>> >>)],   \* " 70 "
    [name |-> "proto.csv", header |-> <<ColCohort, ColMarks>>,
     json |-> Sheet(<<ColCohort, ColMarks>>,
        << <<StrCell(StrA), NumCell(Fin(60))>>,
           <<StrCell(StrConstructor), NumCell(Fin(50))>> >>)],
    [name |-> "inf.csv", header |-> <<ColScore, ColClass>>,
     json |-> Sheet(<<ColScore, ColClass>>,
        << <<NumCell(Fin(50)), StrCell(StrA)>>,
           <<NumCell(PosInf), StrCell(StrA)>>,
           <<NumCell(NaN), StrCell(StrB)>> >>)],
    [name |-> "empty.csv", header |-> <<>>, json |-> <<>>]
}

\* Number(e.target.value) of the three threshold inputs
PassingInputs == {NaN, Fin(0), Fin(150)}
MeritInputs == {Fin(-10), Fin(65), Fin(70)}
DistinctionInputs == {Fin(50), Fin(65)}

\* e.target.value of the title input: " ", "T"
TitleInputs == {<<32>>, <<84>>}
DefaultTitle == <<77, 105, 100, 45, 84, 101, 114, 109, 32, 80, 111, 108, 105, 116, 105,
                  99, 115, 32, 71, 114, 97, 100, 101, 115, 32, 82, 101, 112, 111, 114, 116>>

\* ------------------------------------------------------------- the component
\* the regular expressions of the column auto-detection
\* variant of IsGradeHeader without the i flag
IsGradeHeader_CaseSensitive(c) ==
    \/ Contains(c, <<103, 114, 97, 100, 101>>)
    \/ Contains(c, <<115, 99, 111, 114, 101>>)
    \/ Contains(c, <<109, 97, 114, 107>>)
\* /grade|score|marks?/i.test(c)
IsGradeHeader(c) ==
    LET l == ToLower(c)
    IN  \/ Contains(l, <<103, 114, 97, 100, 101>>)      \* grade
        \/ Contains(l, <<115, 99, 111, 114, 101>>)      \* score
        \/ Contains(l, <<109, 97, 114, 107>>)           \* marks?
\* /group|section|class|cohort/i.test(c)
IsGroupHeader(c) ==
    LET l == ToLower(c)
    IN  \/ Contains(l, <<103, 114, 111, 117, 112>>)             \* group
        \/ Contains(l, <<115, 101, 99, 116, 105, 111, 110>>)    \* section
        \/ Contains(l, <<99, 108, 97, 115, 115>>)               \* class
        \/ Contains(l, <<99, 111, 104, 111, 114, 116>>)         \* cohort

\* cols.find(...) || cols[0] || ""
detectGradeCol(cols) ==
    LET hits == SelectSeq(cols, IsGradeHeader)
    IN  IF hits # <<>> THEN Head(hits)
        ELSE IF Len(cols) >= 1 THEN cols[1]
        ELSE EmptyStr

\* cols.find(...) || cols[1] || ""
detectGroupCol(cols) ==
    LET hits == SelectSeq(cols, IsGroupHeader)
    IN  IF hits # <<>> THEN Head(hits)
        ELSE IF Len(cols) >= 2 THEN cols[2]
        ELSE EmptyStr

\* coerceThresholds: defaults for non-finite values, then the three clamps
DefaultPassing == 40
DefaultMerit == 60
DefaultDistinction == 70
ClampLow == 0
ClampHigh == 100
Min2(a, b) == IF a < b THEN a ELSE b
Max2(a, b) == IF a > b THEN a ELSE b
\* variant of coerceThresholds that bounds merit and distinction below by the values
\* before their clamp
coerceThresholds_ClampAgainstRaw(pa, me, di) ==
    LET p0 == IF NumberIsFinite(pa) THEN pa.v ELSE DefaultPassing
        m0 == IF NumberIsFinite(me) THEN me.v ELSE DefaultMerit
        d0 == IF NumberIsFinite(di) THEN di.v ELSE DefaultDistinction
        p == Max2(ClampLow, Min2(ClampHigh, p0))
        m == Max2(p0, Min2(ClampHigh, m0))
        d == Max2(m0, Min2(ClampHigh, d0))
    IN  [p |-> Fin(p), m |-> Fin(m), d |-> Fin(d)]
\* const coerceThresholds = () => { ... return { p, m, d } }
coerceThresholds(pa, me, di) ==
    LET p0 == IF NumberIsFinite(pa) THEN pa.v ELSE DefaultPassing
        m0 == IF NumberIsFinite(me) THEN me.v ELSE DefaultMerit
        d0 == IF NumberIsFinite(di) THEN di.v ELSE DefaultDistinction
        p == Max2(ClampLow, Min2(ClampHigh, p0))
        m == Max2(p, Min2(ClampHigh, m0))
        d == Max2(m, Min2(ClampHigh, d0))
    IN  [p |-> Fin(p), m |-> Fin(m), d |-> Fin(d)]

\* part_000 has no normaliser: the state's thresholds are used as they are
rawThresholds(pa, me, di) == [p |-> pa, m |-> me, d |-> di]

\* the group label of a row
GroupLabel(x) ==
    IF x.t \in {"null", "undefined"} THEN StrMissing
    ELSE IF x.t = "number" THEN NumberToString(x.num)
    ELSE x.str

\* data.map(...).filter((r) => !Number.isNaN(r.grade))
PrepareRows(d, gCol, grpCol) ==
    SelectSeq([i \in 1..Len(d) |-> [grade |-> parseNumber(Cell(d[i], gCol)),
                                    group |-> GroupLabel(Cell(d[i], grpCol))]],
              LAMBDA r : ~NumberIsNaN(r.grade))

GradesOf(rows) == [i \in 1..Len(rows) |-> rows[i].grade]

\* The names every object inherits from Object.prototype: groups[name] is truthy
\* before any row was stored, and has no push method.
ObjectPrototypeKeys == {
    StrConstructor,
    <<95, 95, 112, 114, 111, 116, 111, 95, 95>>,                            \* __proto__
    <<116, 111, 83, 116, 114, 105, 110, 103>>,                              \* toString
    <<118, 97, 108, 117, 101, 79, 102>>,                                    \* valueOf
    <<104, 97, 115, 79, 119, 110, 80, 114, 111, 112, 101, 114, 116, 121>>,  \* hasOwnProperty
    <<105, 115, 80, 114, 111, 116, 111, 116, 121, 112, 101, 79, 102>>,      \* isPrototypeOf
    <<116, 111, 76, 111, 99, 97, 108, 101, 83, 116, 114, 105, 110, 103>>,   \* toLocaleString
    <<112, 114, 111, 112, 101, 114, 116, 121, 73, 115, 69, 110, 117, 109,
      101, 114, 97, 98, 108, 101>>                                          \* propertyIsEnumerable
}

\* rows.forEach: the object groups after the loop, as its own keys in insertion
\* order and the array of each key; threw when groups[r.group].push is not a function
RECURSIVE buildGroups(_, _)
buildGroups(rows, acc) ==
    IF rows = <<>> \/ acc.threw THEN acc
    ELSE LET r == Head(rows)
         IN  IF r.group \in ObjectPrototypeKeys THEN [acc EXCEPT !.threw = TRUE]
             ELSE IF r.group \in DOMAIN acc.arr
                  THEN buildGroups(Tail(rows),
                           [acc EXCEPT !.arr = [acc.arr EXCEPT ![r.group] = Append(@, r.grade)]])
             ELSE buildGroups(Tail(rows),
                      [acc EXCEPT !.keys = Append(@, r.group),
                                  !.arr = [g \in DOMAIN acc.arr \cup {r.group} |->
                                              IF g = r.group THEN <<r.grade>> ELSE acc.arr[g]]])
NoGroups == [threw |-> FALSE, keys |-> <<>>, arr |-> <<>>]

\* an array index key: canonical decimal digits (the labels here have at most 9)
IsArrayIndex(s) ==
    /\ s # <<>>
    /\ Len(s) <= 9
    /\ \A i \in 1..Len(s) : IsDigit(s[i])
    /\ (Len(s) = 1 \/ s[1] # 48)

\* Object.keys(groups): array-index keys in ascending numeric order, then the
\* other keys in insertion order (own keys are pairwise different: the index key at
\* position i has i-1 index keys below it)
ObjectKeys(keys) ==
    LET idx == {keys[i] : i \in {j \in 1..Len(keys) : IsArrayIndex(keys[j])}}
    IN  [i \in 1..Cardinality(idx) |->
            CHOOSE x \in idx :
                Cardinality({y \in idx : DigitsValue(y, 0) < DigitsValue(x, 0)}) = i - 1]
        \o SelectSeq(keys, LAMBDA k : ~IsArrayIndex(k))

\* Object.keys(groups).sort(): ascending in the order of the UTF-16 code units
SortedKeys(keys) ==
    LET all == {keys[i] : i \in 1..Len(keys)}
    IN  [i \in 1..Cardinality(all) |->
            CHOOSE x \in all : Cardinality({y \in all : StrLess(y, x)}) = i - 1]

\* ------------------------------------------------------------- the metrics
\* The fixed bands of App.js
BandPass == 40
BandMerit == 60
BandDistinction == 70

\* variant of passCount with the comparison inverted
passCount_Inverted(arr, p) == Len(SelectSeq(arr, LAMBDA x : LT(x, p)))
\* rows.filter((r) => r.grade >= p).length
passCount(arr, p) == Len(SelectSeq(arr, LAMBDA x : GE(x, p)))
\* variant of meritCount with the upper bound included
meritCount_UpperInclusive(arr, m, d) ==
    Len(SelectSeq(arr, LAMBDA x : GE(x, m) /\ (LT(x, d) \/ x = d)))
\* rows.filter((r) => r.grade >= m && r.grade < d).length
meritCount(arr, m, d) == Len(SelectSeq(arr, LAMBDA x : GE(x, m) /\ LT(x, d)))
\* rows.filter((r) => r.grade >= d).length
distCount(arr, d) == Len(SelectSeq(arr, LAMBDA x : GE(x, d)))

\* variant of passBandCount whose lower bound is the current passing threshold
passBandCount_FromThreshold(arr) ==
    Len(SelectSeq(arr, LAMBDA x : /\ GE(x, coerceThresholds(passing, merit, distinction).p)
                                  /\ LT(x, Fin(BandMerit))))
\* rows.filter((r) => r.grade >= 40 && r.grade < 60).length
passBandCount(arr) ==
    Len(SelectSeq(arr, LAMBDA x : GE(x, Fin(BandPass)) /\ LT(x, Fin(BandMerit))))
\* rows.filter((r) => r.grade >= 60 && r.grade < 70).length
meritBandCount(arr) ==
    Len(SelectSeq(arr, LAMBDA x : GE(x, Fin(BandMerit)) /\ LT(x, Fin(BandDistinction))))
\* rows.filter((r) => r.grade >= 70).length
distBandCount(arr) == Len(SelectSeq(arr, LAMBDA x : GE(x, Fin(BandDistinction))))
\* ((rows.filter((r) => r.grade >= 40).length / N) * 100).toFixed(1)
overallPassingRateFixed(arr) ==
    RateFixed1(Len(SelectSeq(arr, LAMBDA x : GE(x, Fin(BandPass)))), Len(arr))

\* The summary record of App.js over the grades arr (the overall record; the
\* per-group record repeats the same computations and adds the label).
\* Fields, in the order of the object's keys: N, "Passing Count (>= current Passing)",
\* "Failed Count", "Passing Rate (%)", "Merit Rate (%)", "Distinction Rate (%)",
\* "Overall Passing Rate (>=40) (%)", "Pass (40-59) Count", "Merit (60-69) Count",
\* "Distinction (>=70) Count", Mean, SD, Max, Min.
summaryApp(arr, th) ==
    LET N == Len(arr)
        pass == passCount(arr, th.p)
    IN  [N |-> N,
         PassingCount |-> pass,
         FailedCount |-> N - pass,
         PassingRate |-> RateFixed1(pass, N),
         MeritRate |-> RateFixed1(meritCount(arr, th.m, th.d), N),
         DistinctionRate |-> RateFixed1(distCount(arr, th.d), N),
         OverallPassingRateFixed |-> overallPassingRateFixed(arr),
         PassBandCount |-> passBandCount(arr),
         MeritBandCount |-> meritBandCount(arr),
         DistBandCount |-> distBandCount(arr),
         Mean |-> MeanFixed2(arr),
         SD |-> SDFixed2(arr),
         Max |-> MathMax(arr),
         Min |-> MathMin(arr)]

groupSummaryApp(g, arr, th) == [Group |-> g] @@ summaryApp(arr, th)

\* The summary record of part_000: N, "Passing Count", "Failed Count", the three
\* rates, Mean, SD, Max, Min.
summaryPart000(arr, th) ==
    LET N == Len(arr)
        pass == passCount(arr, th.p)
    IN  [N |-> N,
         PassingCount |-> pass,
         FailedCount |-> N - pass,
         PassingRate |-> RateFixed1(pass, N),
         MeritRate |-> RateFixed1(meritCount(arr, th.m, th.d), N),
         DistinctionRate |-> RateFixed1(distCount(arr, th.d), N),
         Mean |-> MeanFixed2(arr),
         SD |-> SDFixed2(arr),
         Max |-> MathMax(arr),
         Min |-> MathMin(arr)]

groupSummaryPart000(g, arr, th) == [Group |-> g] @@ summaryPart000(arr, th)

\* ------------------------------------------------------------- the charts
\* a chart value (100 * count) / n, before any rounding
Rate(count, n) == [num |-> 100 * count, den |-> n]

NoChart == [shown |-> FALSE, threw |-> FALSE, x |-> <<>>,
            passRates |-> <<>>, meritRates |-> <<>>, distRates |-> <<>>]

\* groupRatesChart, computed by every render from the current data, columns and
\* thresholds: null while no report is generated; the rows with a finite grade
\* go into groupsMap under row[groupCol] ?? "(missing)", the groups are sorted, and
\* each rate is taken over the group's finite grades. The render throws when
\* groupsMap[g].push is not a function (states in which it throws are kept here:
\* the chart is all that reads them).
groupRatesChart ==
    IF ~reportGenerated THEN NoChart
    ELSE LET th == coerceThresholds(passing, merit, distinction)
             rows == SelectSeq([i \in 1..Len(data) |->
                                   [grade |-> parseNumber(Cell(data[i], gradeCol)),
                                    group |-> GroupLabel(Cell(data[i], groupCol))]],
                               LAMBDA r : NumberIsFinite(r.grade))
             groupsMap == buildGroups(rows, NoGroups)
             groupsSorted == SortedKeys(groupsMap.keys)
             arr(i) == groupsMap.arr[groupsSorted[i]]
             n(i) == IF Len(arr(i)) = 0 THEN 1 ELSE Len(arr(i))
         IN  IF groupsMap.threw THEN [NoChart EXCEPT !.threw = TRUE]
             ELSE [shown |-> TRUE,
                   threw |-> FALSE,
                   x |-> groupsSorted,
                   passRates |-> [i \in 1..Len(groupsSorted) |->
                                     Rate(passCount(arr(i), th.p), n(i))],
                   meritRates |-> [i \in 1..Len(groupsSorted) |->
                                      Rate(meritCount(arr(i), th.m, th.d), n(i))],
                   distRates |-> [i \in 1..Len(groupsSorted) |->
                                     Rate(distCount(arr(i), th.d), n(i))]]

\* ------------------------------------------------------------- state machine
NoSrc == [data |-> <<>>, gradeCol |-> EmptyStr, groupCol |-> EmptyStr,
          th |-> [p |-> NaN, m |-> NaN, d |-> NaN]]

Init ==
    /\ fileName = ""
    /\ data = <<>>
    /\ columns = <<>>
    /\ gradeCol = EmptyStr
    /\ groupCol = EmptyStr
    /\ title = EmptyStr
    /\ passing = Fin(DefaultPassing)
    /\ merit = Fin(DefaultMerit)
    /\ distinction = Fin(DefaultDistinction)
    /\ overallSummary = <<>>
    /\ groupSummary = <<>>
    /\ reportGenerated = FALSE
    /\ pending = {}
    /\ outcome = "mounted"
    /\ overallSrc = NoSrc
    /\ groupSrc = NoSrc
    /\ prevSrc = NoSrc
    /\ actions = 0

inputs == <<fileName, data, columns, gradeCol, groupCol, title, passing, merit, distinction>>
summaries == <<overallSummary, groupSummary, reportGenerated, overallSrc, groupSrc, prevSrc>>

\* one more user action, within the budget
Act == actions < MaxActions /\ actions' = actions + 1

\* handleFileChange up to reader.readAsBinaryString(file): the name is shown at
\* once, the read completes later
handleFileChange(f) ==
    /\ Act
    /\ fileName' = f.name
    /\ pending' = pending \cup {f}
    /\ outcome' = "file selected"
    /\ UNCHANGED <<data, columns, gradeCol, groupCol, title, passing, merit,
                   distinction, summaries>>

\* variant of readerOnload without setReportGenerated(false)
readerOnload_KeepsFlag(f) ==
    /\ f \in pending
    /\ pending' = pending \ {f}
    /\ data' = f.json
    /\ LET cols == IF Len(f.json) > 0 THEN f.header ELSE <<>>
       IN  /\ columns' = cols
           /\ gradeCol' = detectGradeCol(cols)
           /\ groupCol' = detectGroupCol(cols)
    /\ overallSummary' = <<>>
    /\ groupSummary' = <<>>
    /\ overallSrc' = NoSrc
    /\ groupSrc' = NoSrc
    /\ prevSrc' = NoSrc
    /\ outcome' = "file loaded"
    /\ UNCHANGED <<fileName, title, passing, merit, distinction, actions, reportGenerated>>
\* reader.onload of the read of f
readerOnload(f) ==
    /\ f \in pending
    /\ pending' = pending \ {f}
    /\ data' = f.json
    /\ LET cols == IF Len(f.json) > 0 THEN f.header ELSE <<>>
       IN  /\ columns' = cols
           /\ gradeCol' = detectGradeCol(cols)
           /\ groupCol' = detectGroupCol(cols)
    /\ overallSummary' = <<>>
    /\ groupSummary' = <<>>
    /\ reportGenerated' = FALSE
    /\ overallSrc' = NoSrc
    /\ groupSrc' = NoSrc
    /\ prevSrc' = NoSrc
    /\ outcome' = "file loaded"
    /\ UNCHANGED <<fileName, title, passing, merit, distinction, actions>>

\* the thresholds generateReport aggregates under: App.js normalises the state's
\* three values, part_000 reads them as they are
thresholdsUsed(rev) ==
    IF rev = "App" THEN coerceThresholds(passing, merit, distinction)
    ELSE rawThresholds(passing, merit, distinction)

\* the order in which generateReport walks the groups
groupOrder(rev, keys) == IF rev = "App" THEN SortedKeys(keys) ELSE ObjectKeys(keys)

overallRecord(rev, arr, th) ==
    IF rev = "App" THEN summaryApp(arr, th) ELSE summaryPart000(arr, th)

groupRecord(rev, g, arr, th) ==
    IF rev = "App" THEN groupSummaryApp(g, arr, th) ELSE groupSummaryPart000(g, arr, th)

\* variant of Alert that also discards the report on display
Alert_DiscardsReport(msg) ==
    /\ outcome' = msg
    /\ overallSummary' = <<>>
    /\ groupSummary' = <<>>
    /\ reportGenerated' = FALSE
    /\ UNCHANGED <<overallSrc, groupSrc, prevSrc>>
\* return alert(msg): the message is shown and no summary state is written
Alert(msg) ==
    /\ outcome' = msg
    /\ UNCHANGED summaries

\* generateReport of revision rev
Generate(rev) ==
    IF Len(data) = 0 THEN
        Alert("alert: Please upload a data file first.") /\ UNCHANGED inputs
    ELSE IF gradeCol = EmptyStr THEN
        Alert("alert: Please select a Grade column.") /\ UNCHANGED inputs
    ELSE IF groupCol = EmptyStr THEN
        Alert("alert: Please select a Group column.") /\ UNCHANGED inputs
    ELSE \E ok \in BOOLEAN :
        IF Trim(title) = EmptyStr /\ ~ok THEN
            \* window.confirm answered with Cancel
            /\ outcome' = "confirm: cancelled"
            /\ UNCHANGED <<inputs, summaries>>
        ELSE
            LET th == thresholdsUsed(rev)
                rows == PrepareRows(data, gradeCol, groupCol)
                grades == GradesOf(rows)
                groups == buildGroups(rows, NoGroups)
                keys == groupOrder(rev, groups.keys)
                src == [data |-> data, gradeCol |-> gradeCol, groupCol |-> groupCol, th |-> th]
            IN  /\ title' = IF Trim(title) = EmptyStr THEN DefaultTitle ELSE title
                /\ UNCHANGED <<fileName, data, columns, gradeCol, groupCol,
                               passing, merit, distinction>>
                /\ IF Len(rows) = 0 THEN
                       Alert("alert: No numeric grades found.")
                   ELSE IF groups.threw THEN
                       \* TypeError in rows.forEach, after setOverallSummary was called:
                       \* React still commits the update already queued
                       /\ overallSummary' = <<overallRecord(rev, grades, th)>>
                       /\ overallSrc' = src
                       /\ outcome' = "TypeError: groups[r.group].push is not a function"
                       /\ UNCHANGED <<groupSummary, reportGenerated, groupSrc, prevSrc>>
                   ELSE
                       /\ overallSummary' = <<overallRecord(rev, grades, th)>>
                       /\ overallSrc' = src
                       /\ groupSummary' = [i \in 1..Len(keys) |->
                                              groupRecord(rev, keys[i], groups.arr[keys[i]], th)]
                       /\ groupSrc' = src
                       /\ prevSrc' = groupSrc
                       /\ reportGenerated' = TRUE
                       /\ outcome' = "report generated"

\* generateReport of src/src/App.js
generateReport ==
    /\ Act
    /\ Generate("App")
    /\ UNCHANGED pending

\* generateReport of src/unnamed/part_000
generateReportPart000 ==
    /\ Act
    /\ Generate("part_000")
    /\ UNCHANGED pending

\* downloadPDF (App.js only; the button of part_000 has no handler)
downloadPDF ==
    /\ outcome' = IF ~reportGenerated THEN "alert: Generate report first."
                  ELSE IF overallSummary = <<>> \/ groupSummary = <<>>
                       THEN "TypeError: Cannot convert undefined or null to object"
                  ELSE "pdf saved"
    /\ UNCHANGED <<inputs, summaries, pending, actions>>

resetAll ==
    /\ fileName' = ""
    /\ data' = <<>>
    /\ columns' = <<>>
    /\ gradeCol' = EmptyStr
    /\ groupCol' = EmptyStr
    /\ title' = EmptyStr
    /\ passing' = Fin(DefaultPassing)
    /\ merit' = Fin(DefaultMerit)
    /\ distinction' = Fin(DefaultDistinction)
    /\ overallSummary' = <<>>
    /\ groupSummary' = <<>>
    /\ reportGenerated' = FALSE
    /\ overallSrc' = NoSrc
    /\ groupSrc' = NoSrc
    /\ prevSrc' = NoSrc
    /\ outcome' = "reset"
    /\ UNCHANGED <<pending, actions>>

\* the onChange handlers of the controls
Edit ==
    /\ Act
    /\ outcome' = "edited"
    /\ UNCHANGED <<fileName, data, columns, summaries, pending>>

setTitle(t) ==
    /\ Edit
    /\ title' = t
    /\ UNCHANGED <<gradeCol, groupCol, passing, merit, distinction>>

\* the options of the two selects: "-- select --" and the columns
ColumnOptions == {EmptyStr} \cup {columns[i] : i \in 1..Len(columns)}

setGradeCol(c) ==
    /\ Edit
    /\ gradeCol' = c
    /\ UNCHANGED <<title, groupCol, passing, merit, distinction>>

setGroupCol(c) ==
    /\ Edit
    /\ groupCol' = c
    /\ UNCHANGED <<title, gradeCol, passing, merit, distinction>>

setPassing(v) ==
    /\ Edit
    /\ passing' = v
    /\ UNCHANGED <<title, gradeCol, groupCol, merit, distinction>>

setMerit(v) ==
    /\ Edit
    /\ merit' = v
    /\ UNCHANGED <<title, gradeCol, groupCol, passing, distinction>>

setDistinction(v) ==
    /\ Edit
    /\ distinction' = v
    /\ UNCHANGED <<title, gradeCol, groupCol, passing, merit>>

\* what the two revisions share
Common ==
    \/ \E f \in Files : handleFileChange(f)
    \/ \E f \in Files : readerOnload(f)
    \/ resetAll
    \/ \E t \in TitleInputs : setTitle(t)
    \/ \E c \in ColumnOptions : setGradeCol(c)
    \/ \E c \in ColumnOptions : setGroupCol(c)
    \/ \E v \in PassingInputs : setPassing(v)
    \/ \E v \in MeritInputs : setMerit(v)
    \/ \E v \in DistinctionInputs : setDistinction(v)

NextApp == Common \/ generateReport \/ downloadPDF
NextPart000 == Common \/ generateReportPart000

\* src/src/App.js
SpecApp == Init /\ [][NextApp]_vars
\* src/unnamed/part_000
SpecPart000 == Init /\ [][NextPart000]_vars

\* ------------------------------------------------------------- properties
\* the rows the generate recorded in src aggregated over
SrcRows(src) == PrepareRows(src.data, src.gradeCol, src.groupCol)
\* the grades of the rows of group g
GradesOfGroup(rows, g) == GradesOf(SelectSeq(rows, LAMBDA r : r.group = g))
\* the labels of the rows
LabelsOf(rows) == {rows[i].group : i \in 1..Len(rows)}
\* the sum of the N fields of a list of records
RECURSIVE SumN(_)
SumN(recs) == IF recs = <<>> THEN 0 ELSE Head(recs).N + SumN(Tail(recs))

\* the alerts with which generateReport reports an error condition
GenerateErrors == {"alert: Please upload a data file first.",
                   "alert: Please select a Grade column.",
                   "alert: Please select a Group column.",
                   "alert: No numeric grades found."}

\* C1: for a dataset that meets none of generate's error conditions, the N fields of
\* the group summary records add up to the N of the overall summary record, whatever
\* the group labels are.
C1_GroupNsSumToOverallN ==
    overallSummary # <<>> => SumN(groupSummary) = overallSummary[1].N

\* C2: the thresholds an aggregation used satisfy 0 <= passing <= merit <= distinction <= 100.
C2_ThresholdsUsedInOrder ==
    overallSummary # <<>> =>
        LET th == overallSrc.th
        IN  /\ GE(th.p, Fin(0))
            /\ GE(th.m, th.p)
            /\ GE(th.d, th.m)
            /\ GE(Fin(100), th.d)

\* C3: a generate request that ends in one of the error alerts leaves the overall
\* summary, the group summary and the report-generated flag as they were.
C3_FailedGenerateKeepsReport ==
    [][outcome' \in GenerateErrors =>
          UNCHANGED <<overallSummary, groupSummary, reportGenerated>>]_vars

\* a report is on display and a later generate request failed for want of numeric grades
C3_Witness ==
    /\ outcome = "alert: No numeric grades found."
    /\ reportGenerated
    /\ overallSummary # <<>>
    /\ groupSummary # <<>>
    /\ overallSrc.gradeCol # gradeCol

\* C4: only rows whose grade cell yields a finite number contribute: N counts exactly
\* those rows, and Max and Min are finite.
C4_OnlyFiniteGradesCounted ==
    overallSummary # <<>> =>
        LET d == overallSrc.data
            finite == {i \in 1..Len(d) :
                          NumberIsFinite(parseNumber(Cell(d[i], overallSrc.gradeCol)))}
        IN  /\ overallSummary[1].N = Cardinality(finite)
            /\ NumberIsFinite(overallSummary[1].Max)
            /\ NumberIsFinite(overallSummary[1].Min)

\* C5: the overall summary and the group summary on display come from the same
\* generate invocation, or are both empty.
C5_SummariesFromOneGenerate ==
    /\ overallSrc = groupSrc
    /\ (overallSummary = <<>>) <=> (groupSummary = <<>>)

\* C6: the group summaries of a successful generate hold one record per distinct
\* group label, in ascending lexicographic order of the label.
C6_GroupsSortedOnePerLabel ==
    reportGenerated =>
        /\ \A i, j \in 1..Len(groupSummary) :
              i < j => StrLess(groupSummary[i].Group, groupSummary[j].Group)
        /\ {groupSummary[i].Group : i \in 1..Len(groupSummary)} = LabelsOf(SrcRows(groupSrc))

\* the example of the specification: grades [35, 45, 65, 75] under thresholds (40, 60, 70)
ExampleOnDisplay ==
    /\ overallSummary # <<>>
    /\ GradesOf(SrcRows(overallSrc)) = <<Fin(35), Fin(45), Fin(65), Fin(75)>>
    /\ overallSrc.th = [p |-> Fin(40), m |-> Fin(60), d |-> Fin(70)]

\* C7 as stated: for the example, mean = 55.00, SD = 16.20, max = 75, min = 35.
C7_ExampleSD1620 ==
    ExampleOnDisplay =>
        /\ overallSummary[1].Mean = Fin(5500)
        /\ overallSummary[1].SD = Fin(1620)
        /\ overallSummary[1].Max = Fin(75)
        /\ overallSummary[1].Min = Fin(35)

\* C7 amended: for the example, mean = 55.00, SD = 15.81 (the population standard
\* deviation sqrt(250)), max = 75, min = 35.
C7_ExampleSD1581 ==
    ExampleOnDisplay =>
        /\ overallSummary[1].Mean = Fin(5500)
        /\ overallSummary[1].SD = Fin(1581)
        /\ overallSummary[1].Max = Fin(75)
        /\ overallSummary[1].Min = Fin(35)

\* the example was generated and its deviation is on display
C7_Witness == ExampleOnDisplay /\ overallSummary[1].SD # NaN /\ outcome = "report generated"

\* C8: for the example, N = 4, passing count 3, failed count 1, one merit and one
\* distinction (25.0 % each), fixed bands 1, 1 and 1, overall passing rate (>=40) 75.0.
C8_ExampleCounts ==
    ExampleOnDisplay =>
        /\ overallSummary[1].N = 4
        /\ overallSummary[1].PassingCount = 3
        /\ overallSummary[1].FailedCount = 1
        /\ overallSummary[1].PassingRate = 750
        /\ overallSummary[1].MeritRate = 250
        /\ overallSummary[1].DistinctionRate = 250
        /\ overallSummary[1].PassBandCount = 1
        /\ overallSummary[1].MeritBandCount = 1
        /\ overallSummary[1].DistBandCount = 1
        /\ overallSummary[1].OverallPassingRateFixed = 750

\* the example was generated and its four rows were counted
C8_Witness == ExampleOnDisplay /\ overallSummary[1].N = 4 /\ reportGenerated

\* the merit rate of the grades gs under th: the share with merit <= g < distinction
MeritRateOf(gs, th) ==
    RateFixed1(Cardinality({i \in 1..Len(gs) : GE(gs[i], th.m) /\ LT(gs[i], th.d)}), Len(gs))

\* C9: in the overall record and in every group record the merit rate is the share of
\* grades g with merit <= g < distinction under the thresholds of that generate, and
\* is 0 when merit equals distinction.
C9_MeritRange ==
    /\ overallSummary # <<>> =>
          /\ overallSummary[1].MeritRate =
                 MeritRateOf(GradesOf(SrcRows(overallSrc)), overallSrc.th)
          /\ overallSrc.th.m = overallSrc.th.d => overallSummary[1].MeritRate = 0
    /\ \A i \in 1..Len(groupSummary) :
          /\ groupSummary[i].MeritRate =
                 MeritRateOf(GradesOfGroup(SrcRows(groupSrc), groupSummary[i].Group), groupSrc.th)
          /\ groupSrc.th.m = groupSrc.th.d => groupSummary[i].MeritRate = 0

\* a report generated with merit = distinction over rows of which one has exactly that grade
C9_Witness ==
    /\ reportGenerated
    /\ overallSrc = groupSrc
    /\ groupSrc.th.m = groupSrc.th.d
    /\ \E i \in 1..Len(SrcRows(groupSrc)) : SrcRows(groupSrc)[i].grade = groupSrc.th.m

FixedBandFields(r) ==
    <<r.PassBandCount, r.MeritBandCount, r.DistBandCount, r.OverallPassingRateFixed>>
SameRowsAndColumns(a, b) ==
    a.data = b.data /\ a.gradeCol = b.gradeCol /\ a.groupCol = b.groupCol

\* C10: a generate that replaces a report made from the same rows and columns leaves
\* the fixed-band fields of the overall record and of every group record as they
\* were, whatever the thresholds of the two runs.
C10_FixedBandsIgnoreThresholds ==
    [][outcome' = "report generated" =>
          /\ (overallSummary # <<>> /\ SameRowsAndColumns(overallSrc, overallSrc')) =>
                 FixedBandFields(overallSummary'[1]) = FixedBandFields(overallSummary[1])
          /\ (groupSummary # <<>> /\ SameRowsAndColumns(groupSrc, groupSrc')) =>
                 \A i \in 1..Len(groupSummary) : \A j \in 1..Len(groupSummary') :
                     groupSummary[i].Group = groupSummary'[j].Group =>
                         FixedBandFields(groupSummary'[j]) = FixedBandFields(groupSummary[i])]_vars

\* two successive reports over the same rows and columns under different thresholds
C10_Witness ==
    /\ reportGenerated
    /\ prevSrc # NoSrc
    /\ SameRowsAndColumns(prevSrc, groupSrc)
    /\ prevSrc.th # groupSrc.th

\* all the grades of arr are the same number
AllEqual(arr) == \A i, j \in 1..Len(arr) : arr[i] = arr[j]
\* the SD field sd of a record over the grades arr is a number >= 0, and is 0
\* exactly when the grades are all equal
SDAgrees(sd, arr) == GE(sd, Fin(0)) /\ (sd = Fin(0) <=> AllEqual(arr))

\* C11: in every summary record (the overall one and each group's) the SD is >= 0,
\* and it is 0 exactly when all the grades the record summarizes are equal.
C11_SDZeroIffAllEqual ==
    /\ overallSummary # <<>> =>
           SDAgrees(overallSummary[1].SD, GradesOf(SrcRows(overallSrc)))
    /\ \A i \in 1..Len(groupSummary) :
           SDAgrees(groupSummary[i].SD,
                    GradesOfGroup(SrcRows(groupSrc), groupSummary[i].Group))

\* th is a triple of finite numbers with 0 <= passing <= merit <= distinction <= 100
Normalized(th) ==
    /\ NumberIsFinite(th.p) /\ NumberIsFinite(th.m) /\ NumberIsFinite(th.d)
    /\ GE(th.p, Fin(0)) /\ GE(th.m, th.p) /\ GE(th.d, th.m) /\ GE(Fin(100), th.d)

\* C12: threshold normalization is idempotent: applied to its own output it returns
\* that output, and applied to threshold inputs that already satisfy
\* 0 <= passing <= merit <= distinction <= 100 it returns them unchanged.
C12_CoerceIdempotent ==
    LET th == coerceThresholds(passing, merit, distinction)
        raw == [p |-> passing, m |-> merit, d |-> distinction]
    IN  /\ coerceThresholds(th.p, th.m, th.d) = th
        /\ Normalized(raw) => th = raw

\* a report was generated from threshold inputs that were normalized already, with
\* passing equal to 0
C12_Witness ==
    /\ reportGenerated
    /\ passing = Fin(0)
    /\ Normalized([p |-> passing, m |-> merit, d |-> distinction])
    /\ groupSrc.th = coerceThresholds(passing, merit, distinction)

\* a chart value to one decimal, in tenths, as the table's rates are
RateToFixed1(r) == RoundHalfAway(10 * r.num, r.den)

\* C13: whenever a report is displayed, the chart shows the groups of the displayed
\* group summary records, and for each its passing, merit and distinction rate are
\* those of the group's record.
C13_ChartShowsGroupSummary ==
    LET c == groupRatesChart
    IN  c.shown =>
            /\ c.x = [i \in 1..Len(groupSummary) |-> groupSummary[i].Group]
            /\ \A i \in 1..Len(groupSummary) :
                   /\ RateToFixed1(c.passRates[i]) = groupSummary[i].PassingRate
                   /\ RateToFixed1(c.meritRates[i]) = groupSummary[i].MeritRate
                   /\ RateToFixed1(c.distRates[i]) = groupSummary[i].DistinctionRate

\* the words a grade header and a group header are recognized by
GradeWords == {<<103, 114, 97, 100, 101>>, <<115, 99, 111, 114, 101>>, <<109, 97, 114, 107>>}
GroupWords == {<<103, 114, 111, 117, 112>>, <<115, 101, 99, 116, 105, 111, 110>>,
               <<99, 108, 97, 115, 115>>, <<99, 111, 104, 111, 114, 116>>}
\* the first header of cols that holds one of the words in any letter case, else the
\* header at position fallback, else the empty selection
FirstHeaderWith(cols, words, fallback) ==
    LET hits == {i \in 1..Len(cols) : \E w \in words : Contains(ToLower(cols[i]), w)}
    IN  IF hits # {} THEN cols[CHOOSE i \in hits : \A j \in hits : i <= j]
        ELSE IF Len(cols) >= fallback THEN cols[fallback]
        ELSE EmptyStr

\* C14: when a file read completes, the grade column is the first header matching
\* grade, score or mark(s) in any letter case, else the first column, and the group
\* column is the first header matching group, section, class or cohort in any letter
\* case, else the second column.
C14_ColumnsDetectedOnImport ==
    outcome = "file loaded" =>
        /\ gradeCol = FirstHeaderWith(columns, GradeWords, 1)
        /\ groupCol = FirstHeaderWith(columns, GroupWords, 2)

\* a file was imported whose group header comes first and whose grade header second
C14_Witness ==
    /\ outcome = "file loaded"
    /\ columns = <<ColCohort, ColMarks>>
    /\ gradeCol = ColMarks
    /\ groupCol = ColCohort

\* C15: in every reachable state the report-generated flag is true exactly when the
\* overall summary and the group summary are both non-empty, and the PDF export never
\* fails on the first record of an empty summary.
C15_FlagIffBothSummaries ==
    /\ reportGenerated <=> (overallSummary # <<>> /\ groupSummary # <<>>)
    /\ outcome # "TypeError: Cannot convert undefined or null to object"

\* the PDF was exported from a generated report
C15_Witness ==
    /\ outcome = "pdf saved"
    /\ reportGenerated
    /\ overallSummary # <<>>
    /\ groupSummary # <<>>

\* C16: once every started file read has completed, the loaded rows and columns are
\* those of the file whose name is displayed, and none are loaded when no name is
\* displayed (the cleared state of a reset).
C16_LoadedRowsOfDisplayedFile ==
    pending = {} =>
        IF fileName = "" THEN data = <<>> /\ columns = <<>>
        ELSE \E f \in Files :
                 /\ f.name = fileName
                 /\ data = f.json
                 /\ columns = IF Len(f.json) > 0 THEN f.header ELSE <<>>

\* the counts of a record rec over the grades arr, with the merit and distinction
\* counts generate computed for its rates under the thresholds th
CountsNested(rec, arr, th) ==
    /\ meritCount(arr, th.m, th.d) + distCount(arr, th.d) <= rec.PassingCount
    /\ rec.PassingCount <= rec.N
    /\ rec.PassingCount + rec.FailedCount = rec.N

\* C17: in every summary record produced by generate (the overall one and each
\* group's), for any threshold inputs, merit count + distinction count <= passing
\* count <= N, and passing count + failed count = N.
C17_CountsNested ==
    /\ overallSummary # <<>> =>
           CountsNested(overallSummary[1], GradesOf(SrcRows(overallSrc)), overallSrc.th)
    /\ \A i \in 1..Len(groupSummary) :
           CountsNested(groupSummary[i],
                        GradesOfGroup(SrcRows(groupSrc), groupSummary[i].Group),
                        groupSrc.th)
====
